---- MODULE Spec2Model ----
(***************************************************************************)
(* Moderation queue of the hate-speech data collection portal.             *)
(*                                                                         *)
(* Two programs work on the table "submissions":                           *)
(*   create_database.py  create_database, reset_database, add_submission,  *)
(*                       export_to_csv                                     *)
(*   app1.py             the Streamlit page: submission form, dataset      *)
(*                       statistics, admin review loop, Download CSV       *)
(* Both declare the same table; the model lets them share one store `db`   *)
(* (DATABASE_URL is configuration).  A SQLAlchemy session is modelled by   *)
(* its transaction state, the objects it loaded and its unit of work.      *)
(* The optional `context` column is written once and never read by any     *)
(* operation modelled here; it is left out of the row.                     *)
(***************************************************************************)
EXTENDS Integers, Sequences, FiniteSets, TLC

VARIABLES
    db,      \* the committed rows of table submissions: id -> row
    clock,   \* number of rows ever inserted; the newest row's timestamp
    sess,    \* session slot -> the SQLAlchemy session held there
    last,    \* the most recent operation and what it reported to its caller
    out      \* what the most recent operation produced (CSV, statistics)

vars == <<db, clock, sess, last, out>>

----------------------------------------------------------------------------
(* Bounds of the model *)

MaxClock == 2       \* rows inserted in one behaviour

----------------------------------------------------------------------------
(* Program constants *)

ALLOWED_CATEGORIES == {"religion", "language", "gender", "conspiracy"}
ALLOWED_PLATFORMS == {"X", "Reddit"}
ALLOWED_STATUS == {"pending", "approved", "rejected"}

AppAllowedCategories == {"Religion", "Language", "Gender", "Conspiracy"}
AppAllowedPlatforms == {"X", "Reddit"}

PendingLimit == 5

ApproveValueSwapped == "rejected"
ApproveValue == "approved"
RejectValue == "rejected"

----------------------------------------------------------------------------
(* Values *)

\* The session of create_database.py's caller, and one per page run of app1.py.
CliSession == 0
Pages == {1, 2}
Sessions == {CliSession} \cup Pages

Whitespace == {" "}

\* An optional argument: <<>> is Python's None, <<t>> is the value t.
None == <<>>
Some(t) == <<t>>

\* Arguments the submit operations are tried with: a text of whitespace only
\* and one with whitespace before it; a category create_database.py allows
\* and one app1.py allows; a platform both allow and one neither does; a
\* status outside the allowed three; anonymized_text left out, and passed
\* empty.
Texts == {<<" ">>, <<" ", "a">>}
CategoryInputs == {"gender", "Gender"}
PlatformInputs == {"X", "Facebook"}
StatusInputs == {"pending", "approved", "deleted"}
AnonInputs == {None, Some(<<>>)}

\* str.strip(): drop leading and trailing whitespace.
RECURSIVE LStrip(_)
LStrip(t) ==
    IF t # <<>> /\ Head(t) \in Whitespace THEN LStrip(Tail(t)) ELSE t

RECURSIVE RStrip(_)
RStrip(t) ==
    IF t # <<>> /\ t[Len(t)] \in Whitespace
    THEN RStrip(SubSeq(t, 1, Len(t) - 1))
    ELSE t

Strip(t) == RStrip(LStrip(t))

\* anonymized_text passed on as it is.
OrTextNoDefault(a, b) == IF a = None THEN <<>> ELSE a[1]

\* Python's `a or b` on an optional string a: None and "" are falsy.
OrText(a, b) == IF a = None \/ a[1] = <<>> THEN b ELSE a[1]

\* Python's `a or b` on two strings.
OrStr(a, b) == IF a = <<>> THEN b ELSE a

----------------------------------------------------------------------------
(* The table and the SQLAlchemy session *)

Max(S) == CHOOSE x \in S : \A y \in S : y <= x

\* The primary key the store gives the next inserted row.
NextId(d) == IF DOMAIN d = {} THEN 1 ELSE Max(DOMAIN d) + 1

\* Submission(...): the mapped object before it is flushed (no id, no
\* timestamp yet).
Submission(text, anonymized_text, category, platform, status) ==
    [text |-> text, anonymized_text |-> anonymized_text,
     category |-> category, platform |-> platform, status |-> status]

NoObject == Submission(<<>>, <<>>, "", "", "")

\* What a unit of work holds: session.add(obj), or an attribute set on a
\* loaded object (sub.status = ...).
Added(obj) == [kind |-> "insert", id |-> 0, status |-> obj.status, obj |-> obj]
Dirty(id, status) == [kind |-> "update", id |-> id, status |-> status, obj |-> NoObject]

\* The row an INSERT writes: the column defaults fill id and timestamp.
InsertedRow(obj, now) ==
    [text |-> obj.text, anonymized_text |-> obj.anonymized_text,
     category |-> obj.category, platform |-> obj.platform,
     status |-> obj.status, timestamp |-> now]

\* An UPDATE that takes a rejected submission out of the table.
ApplyChangeDeleting(d, ch, now) ==
    IF ch.kind = "insert"
    THEN [i \in DOMAIN d \cup {NextId(d)} |->
            IF i \in DOMAIN d THEN d[i] ELSE InsertedRow(ch.obj, now)]
    ELSE IF ch.status = "rejected"
    THEN [i \in DOMAIN d \ {ch.id} |-> d[i]]
    ELSE [d EXCEPT ![ch.id].status = ch.status]

\* One flushed statement: INSERT, or UPDATE submissions SET status WHERE id.
ApplyChange(d, ch, now) ==
    IF ch.kind = "insert"
    THEN [i \in DOMAIN d \cup {NextId(d)} |->
            IF i \in DOMAIN d THEN d[i] ELSE InsertedRow(ch.obj, now)]
    ELSE [d EXCEPT ![ch.id].status = ch.status]

RECURSIVE ApplyAll(_, _, _)
ApplyAll(d, uow, now) ==
    IF uow = <<>> THEN d
    ELSE ApplyAll(ApplyChange(d, Head(uow), now), Tail(uow),
                  IF Head(uow).kind = "insert" THEN now + 1 ELSE now)

Inserts(uow) == Cardinality({i \in 1..Len(uow) : uow[i].kind = "insert"})

\* An UPDATE that is not checked against the rows it matched.
MatchedUnchecked(d, ch) == TRUE

\* An UPDATE ... WHERE id = ? AND status = 'pending'.
MatchedWhilePending(d, ch) ==
    ch.kind = "insert" \/ (ch.id \in DOMAIN d /\ d[ch.id].status = "pending")

\* An UPDATE of a loaded object must match its row.
Matched(d, ch) == ch.kind = "insert" \/ ch.id \in DOMAIN d

\* sessionmaker(bind=engine)(): a new session.
NewSession == [txn |-> "active", page |-> "none", listed |-> {}, uow |-> <<>>]

\* session.rollback(): the unit of work is discarded, the session usable again.
Rollback(sn) == [sn EXCEPT !.txn = "active", !.uow = <<>>, !.listed = {}]

\* session.close(): nothing loaded, no transaction; usable like a new one.
Close(sn) == [sn EXCEPT !.txn = "active", !.page = "none", !.listed = {}, !.uow = <<>>]

\* What a failed flush leaves of the session: the store's transaction is
\* undone, and the session stays inactive, refusing further work, until the
\* caller calls rollback().  The changes it was writing are not kept here:
\* an inactive session cannot write them, and rollback() and close() drop them.
Failed(sn) == [sn EXCEPT !.txn = "inactive", !.uow = <<>>]

\* session.commit() with the store failing (fail) or not: all of the unit of
\* work is written, or none of it.
Commit(sn, d, now, fail) ==
    IF sn.txn = "inactive"
    THEN [result |-> "PendingRollbackError", db |-> d, clock |-> now, sn |-> sn]
    ELSE IF fail
    THEN [result |-> "StoreError", db |-> d, clock |-> now, sn |-> Failed(sn)]
    ELSE IF \E i \in 1..Len(sn.uow) : ~Matched(d, sn.uow[i])
    THEN [result |-> "StaleDataError", db |-> d, clock |-> now, sn |-> Failed(sn)]
    ELSE [result |-> "ok", db |-> ApplyAll(d, sn.uow, now + 1),
          clock |-> now + Inserts(sn.uow),
          sn |-> [sn EXCEPT !.txn = "active", !.uow = <<>>]]

Errors == {"ValueError", "EmptyText", "StoreError", "StaleDataError",
           "PendingRollbackError", "NoApprovedData"}

NoOutput == [kind |-> "none", header |-> <<>>, rows |-> <<>>]

\* What an operation leaves in `last`: its name, what it reported, and a
\* note (a review's: the status the row had before; add_submission's:
\* whether anonymized_text was passed), the note kept only of a success.
Did(op, result, note) == [op |-> op, result |-> result, note |-> note]

----------------------------------------------------------------------------
(* create_database.py *)

Init ==
    /\ db = <<>>
    /\ clock = 0
    /\ sess = [s \in Sessions |-> NewSession]
    /\ last = Did("start", "ok", "")
    /\ out = NoOutput

\* SessionLocal(): the caller of add_submission makes itself a session.
SessionLocal ==
    /\ sess' = [sess EXCEPT ![CliSession] = NewSession]
    /\ last' = Did("SessionLocal", "ok", "")
    /\ out' = NoOutput
    /\ UNCHANGED <<db, clock>>

create_database ==
    /\ last' = Did("create_database", "ok", "")
    /\ out' = NoOutput
    /\ UNCHANGED <<db, clock, sess>>

reset_database ==
    /\ db' = <<>>
    /\ last' = Did("reset_database", "ok", "")
    /\ out' = NoOutput
    /\ UNCHANGED <<clock, sess>>

\* The caller (add_sample_data) lets every exception end the program: a
\* session whose commit failed is not used again.
add_submission(s, text, category, platform, anonymized_text, status, fail) ==
    /\ clock < MaxClock
    /\ sess[s].txn # "inactive"
    /\ out' = NoOutput
    /\ IF \/ category \notin ALLOWED_CATEGORIES
          \/ platform \notin ALLOWED_PLATFORMS
          \/ status \notin ALLOWED_STATUS
       THEN /\ last' = Did("add_submission", "ValueError", "")
            /\ UNCHANGED <<db, clock, sess>>
       ELSE LET submission == Submission(text, OrText(anonymized_text, text),
                                         category, platform, status)
                added == [sess[s] EXCEPT !.uow = Append(@, Added(submission))]
                c == Commit(added, db, clock, fail)
            IN  /\ db' = c.db
                /\ clock' = c.clock
                /\ sess' = [sess EXCEPT ![s] = c.sn]
                /\ last' = Did("add_submission", c.result,
                               IF c.result # "ok" THEN ""
                               ELSE IF anonymized_text = None THEN "omitted"
                               ELSE "given")

\* view_database_info / dataset statistics: the four counts.
CountByStatus(d, status) == Cardinality({i \in DOMAIN d : d[i].status = status})

Stats(d) ==
    [kind |-> "stats",
     total |-> Cardinality(DOMAIN d),
     pending |-> CountByStatus(d, "pending"),
     approved |-> CountByStatus(d, "approved"),
     rejected |-> CountByStatus(d, "rejected")]

\* query(Submission).filter_by(status="approved").all(), in primary key order.
RECURSIVE InIdOrder(_)
InIdOrder(ids) ==
    IF ids = {} THEN <<>>
    ELSE LET m == CHOOSE i \in ids : \A j \in ids : i <= j
         IN  <<m>> \o InIdOrder(ids \ {m})

Approved(d) == InIdOrder({i \in DOMAIN d : d[i].status = "approved"})

CsvFile(header, rows) == [kind |-> "csv", header |-> header, rows |-> rows]
NoFile == [kind |-> "nofile", header |-> <<>>, rows |-> <<>>]

\* export_to_csv without its early return.
ExportToCsvAlways(d) ==
    LET approved == Approved(d)
    IN  CsvFile(<<"id", "text", "category", "platform", "timestamp">>,
                [k \in 1..Len(approved) |->
                   LET r == d[approved[k]]
                   IN  <<approved[k], OrStr(r.anonymized_text, r.text),
                         r.category, r.platform, r.timestamp>>])

\* export_to_csv: nothing is written when no row is approved.
ExportToCsv(d) ==
    LET approved == Approved(d)
    IN  IF approved = <<>> THEN NoFile
        ELSE CsvFile(<<"id", "text", "category", "platform", "timestamp">>,
                     [k \in 1..Len(approved) |->
                        LET r == d[approved[k]]
                        IN  <<approved[k], OrStr(r.anonymized_text, r.text),
                              r.category, r.platform, r.timestamp>>])

export_to_csv ==
    /\ out' = ExportToCsv(db)
    /\ last' = Did("export_to_csv",
                   IF Approved(db) = <<>> THEN "NoApprovedData" ELSE "ok", "")
    /\ UNCHANGED <<db, clock, sess>>

----------------------------------------------------------------------------
(* app1.py: one page run per action, on the session the run opens *)

\* The submission form handler.
SubmitEntry(s, text, category, platform, fail) ==
    /\ clock < MaxClock
    /\ out' = NoOutput
    /\ IF Strip(text) = <<>>
       THEN /\ last' = Did("submit_entry", "EmptyText", "")
            /\ sess' = [sess EXCEPT ![s] = NewSession]
            /\ UNCHANGED <<db, clock>>
       ELSE LET submission == Submission(Strip(text), Strip(text),
                                         category, platform, "pending")
                added == [NewSession EXCEPT !.uow = <<Added(submission)>>]
                c == Commit(added, db, clock, fail)
            IN  /\ db' = c.db
                /\ clock' = c.clock
                /\ sess' = [sess EXCEPT ![s] =
                              IF c.result = "ok" THEN Close(c.sn)
                              ELSE Close(Rollback(c.sn))]
                /\ last' = Did("submit_entry", c.result, "")

\* The dataset statistics section.
DatasetStatistics ==
    /\ out' = Stats(db)
    /\ last' = Did("statistics", "ok", "")
    /\ UNCHANGED <<db, clock, sess>>

\* filter_by(status="pending").order_by(timestamp.desc()).limit(n).all()
RECURSIVE NewestFirst(_, _, _)
NewestFirst(d, ids, n) ==
    IF n = 0 \/ ids = {} THEN <<>>
    ELSE LET m == CHOOSE i \in ids :
                    \A j \in ids : d[j].timestamp <= d[i].timestamp
         IN  <<m>> \o NewestFirst(d, ids \ {m}, n - 1)

PendingSubmissions(d) ==
    NewestFirst(d, {i \in DOMAIN d : d[i].status = "pending"}, PendingLimit)

\* The admin panel opens a session and lists the pending submissions.
AdminList(s) ==
    /\ sess' = [sess EXCEPT ![s] =
                  [NewSession EXCEPT
                     !.page = "admin",
                     !.listed = {PendingSubmissions(db)[k] :
                                   k \in 1..Len(PendingSubmissions(db))}]]
    /\ last' = Did("list_pending", "ok", "")
    /\ out' = NoOutput
    /\ UNCHANGED <<db, clock>>

\* sub.status = status; session.commit() on a listed submission.  The run
\* ends there: st.rerun() after the commit, the outer except after a failure.
Review(op, s, id, status, fail) ==
    /\ sess[s].page = "admin"
    /\ id \in sess[s].listed
    /\ LET dirty == [sess[s] EXCEPT !.uow = Append(@, Dirty(id, status))]
           c == Commit(dirty, db, clock, fail)
       IN  /\ db' = c.db
           /\ sess' = [sess EXCEPT ![s] =
                         [c.sn EXCEPT !.page = "none", !.listed = {}]]
           /\ last' = Did(op, c.result,
                          IF c.result = "ok" /\ id \in DOMAIN db
                          THEN db[id].status ELSE "")
    /\ out' = NoOutput
    /\ UNCHANGED clock

Approve(s, id, fail) == Review("approve", s, id, ApproveValue, fail)

Reject(s, id, fail) == Review("reject", s, id, RejectValue, fail)

\* The Download CSV button: a frame of the approved rows, written without
\* its index.  A frame built from no records has no columns.
DownloadCsvData(d) ==
    LET approved == Approved(d)
    IN  CsvFile(IF approved = <<>> THEN <<>>
                ELSE <<"text", "category", "platform", "timestamp">>,
                [k \in 1..Len(approved) |->
                   LET r == d[approved[k]]
                   IN  <<r.anonymized_text, r.category, r.platform, r.timestamp>>])

DownloadCsv(s) ==
    /\ sess[s].page = "admin"
    /\ out' = DownloadCsvData(db)
    /\ sess' = [sess EXCEPT ![s] = Close(sess[s])]
    /\ last' = Did("download_csv", "ok", "")
    /\ UNCHANGED <<db, clock>>

----------------------------------------------------------------------------

Next ==
    \/ SessionLocal
    \/ create_database
    \/ reset_database
    \/ \E text \in Texts, category \in CategoryInputs,
          platform \in PlatformInputs, anonymized_text \in AnonInputs,
          status \in StatusInputs, fail \in BOOLEAN :
          add_submission(CliSession, text, category, platform,
                         anonymized_text, status, fail)
    \/ export_to_csv
    \/ \E s \in Pages, text \in Texts,
          category \in AppAllowedCategories \cap CategoryInputs,
          platform \in AppAllowedPlatforms \cap PlatformInputs,
          fail \in BOOLEAN :
          SubmitEntry(s, text, category, platform, fail)
    \/ DatasetStatistics
    \/ \E s \in Pages : AdminList(s)
    \/ \E s \in Pages, id \in 1..MaxClock, fail \in BOOLEAN : Approve(s, id, fail)
    \/ \E s \in Pages, id \in 1..MaxClock, fail \in BOOLEAN : Reject(s, id, fail)
    \/ \E s \in Pages : DownloadCsv(s)

Spec == Init /\ [][Next]_vars

----------------------------------------------------------------------------
(* Properties *)

Count(d) == Cardinality(DOMAIN d)

ValidationErrors == {"ValueError", "EmptyText"}

\* C1: a submit whose text is empty after trimming whitespace fails with a
\* validation error, whatever its category, platform and status, and the
\* number of stored submissions is the same after it as before.
C1_EmptyTextRejected ==
    [][\A text \in {t \in Texts : Strip(t) = <<>>} :
         /\ last'.op = "add_submission" =>
               \A category \in CategoryInputs, platform \in PlatformInputs,
                  anonymized_text \in AnonInputs, status \in StatusInputs,
                  fail \in BOOLEAN :
                  add_submission(CliSession, text, category, platform,
                                 anonymized_text, status, fail)
                  => /\ last'.result \in ValidationErrors
                     /\ Count(db') = Count(db)
         /\ last'.op = "submit_entry" =>
               \A s \in Pages,
                  category \in CategoryInputs \cap AppAllowedCategories,
                  platform \in PlatformInputs \cap AppAllowedPlatforms,
                  fail \in BOOLEAN :
                  SubmitEntry(s, text, category, platform, fail)
                  => /\ last'.result \in ValidationErrors
                     /\ Count(db') = Count(db)]_vars

StoredInEnumerations(d) ==
    \A i \in DOMAIN d : /\ d[i].category \in ALLOWED_CATEGORIES
                         /\ d[i].platform \in ALLOWED_PLATFORMS

\* C2: after every operation each stored submission has its category in
\* {religion, language, gender, conspiracy} and its platform in {X, Reddit},
\* and a submit with a category or platform outside these sets fails and
\* stores nothing.
C2_EnumerationsEnforced ==
    [][/\ StoredInEnumerations(db')
       /\ \A text \in Texts, category \in CategoryInputs,
             platform \in PlatformInputs, status \in StatusInputs,
             fail \in BOOLEAN :
             /\ add_submission(CliSession, text, category, platform,
                               None, status, fail)
             /\ \/ category \notin ALLOWED_CATEGORIES
                \/ platform \notin ALLOWED_PLATFORMS
             => /\ last'.result \in ValidationErrors
                /\ db' = db]_vars

\* The step added exactly the row `id`, pending, with anonymized_text equal
\* to its text, and left the other rows as they were.
AddedPending(text) ==
    LET id == NextId(db)
    IN
    /\ DOMAIN db' = DOMAIN db \cup {id}
    /\ \A i \in DOMAIN db : db'[i] = db[i]
    /\ db'[id].text = text
    /\ db'[id].status = "pending"
    /\ db'[id].anonymized_text = db'[id].text

\* C3: a submit of a valid text, category and platform that passes neither
\* anonymized_text nor a status, with the store accepting the commit, adds
\* exactly one submission, with status "pending" and anonymized_text equal to
\* its text (add_submission stores the text as given, the form stores it
\* trimmed).
C3_SubmitDefaults ==
    [][\A text \in {t \in Texts : Strip(t) # <<>>} :
         /\ last'.op = "add_submission" =>
               \A category \in CategoryInputs \cap ALLOWED_CATEGORIES,
                  platform \in PlatformInputs \cap ALLOWED_PLATFORMS :
                  add_submission(CliSession, text, category, platform,
                                 None, "pending", FALSE)
                  => /\ last'.result = "ok"
                     /\ AddedPending(text)
         /\ last'.op = "submit_entry" =>
               \A s \in Pages,
                  category \in CategoryInputs \cap AppAllowedCategories,
                  platform \in PlatformInputs \cap AppAllowedPlatforms :
                  SubmitEntry(s, text, category, platform, FALSE)
                  => /\ last'.result = "ok"
                     /\ AddedPending(Strip(text))]_vars

C3_Witness ==
    /\ last.op = "add_submission"
    /\ last.note = "omitted"
    /\ last.result = "ok"
    /\ Count(db) = 2
    /\ LET new == db[Max(DOMAIN db)]
       IN  /\ Strip(new.text) # <<>>
           /\ new.timestamp = clock
           /\ new.status = "pending"
           /\ new.anonymized_text = new.text


\* The submission of row i is still stored, with only its status free to change.
Kept(i) ==
    /\ i \in DOMAIN db'
    /\ [db'[i] EXCEPT !.status = ""] = [db[i] EXCEPT !.status = ""]

\* C4 as stated: a submission present in the store in one state is present
\* in every later state, whatever operation is taken (the stored count never
\* decreases).
C4_NeverRemoved ==
    [][/\ \A i \in DOMAIN db : Kept(i)
       /\ Count(db') >= Count(db)]_vars

\* C4 as amended: every operation other than reset_database keeps each stored
\* submission, with its id, text, anonymized_text, category, platform and
\* timestamp, so the stored count does not decrease; reset_database is the
\* one operation that removes submissions.
C4_RemovedOnlyByReset ==
    [][\/ reset_database
       \/ /\ \A i \in DOMAIN db : Kept(i)
          /\ Count(db') >= Count(db)]_vars

C4_Witness ==
    /\ last.op = "reject"
    /\ last.result = "ok"
    /\ Count(db) = 2
    /\ \E i \in DOMAIN db : db[i].status = "rejected"

NoneApproved(d) == \A i \in DOMAIN d : d[i].status # "approved"

IsRowOf(row, i) ==
    /\ Len(row) = 5
    /\ row[1] = i
    /\ row[2] = OrStr(db[i].anonymized_text, db[i].text)
    /\ row[3] = db[i].category
    /\ row[4] = db[i].platform
    /\ row[5] = db[i].timestamp

\* C6: an export emits exactly one row for each submission approved at export
\* time and none for a pending or rejected one, each row carrying id,
\* anonymized_text (text when anonymized_text is empty), category, platform
\* and timestamp in that order.
C6_OneRowPerApproved ==
    [][(export_to_csv \/ \E s \in Pages : DownloadCsv(s)) =>
         /\ Len(out'.rows) = Len(Approved(db))
         /\ \A k \in 1..Len(out'.rows) : IsRowOf(out'.rows[k], Approved(db)[k])]_vars

\* C7: approving a submission that is pending, with the store accepting the
\* commit, makes the statistics' approved count one higher and their pending
\* count one lower than they were just before, total and rejected unchanged.
C7_ApproveMovesOneCount ==
    [][\A s \in Pages, id \in DOMAIN db :
         (last'.op = "approve" /\ db[id].status = "pending"
            /\ Approve(s, id, FALSE)) =>
           /\ last'.result = "ok"
           /\ Stats(db').approved = Stats(db).approved + 1
           /\ Stats(db').pending = Stats(db).pending - 1
           /\ Stats(db').rejected = Stats(db).rejected
           /\ Stats(db').total = Stats(db).total]_vars

C7_Witness ==
    /\ last.op = "approve"
    /\ last.result = "ok"
    /\ last.note = "pending"
    /\ Stats(db).total = 2
    /\ Stats(db).approved = 2

C10_LastCommitWins ==
    [][\A s \in Pages, id \in DOMAIN db :
         /\ (last'.op = "approve" /\ Approve(s, id, FALSE)) =>
              /\ last'.result = "ok"
              /\ db'[id].status = "approved"
         /\ (last'.op = "reject" /\ Reject(s, id, FALSE)) =>
              /\ last'.result = "ok"
              /\ db'[id].status = "rejected"]_vars

\* Both admins listed the one submission as pending, one approved it, and
\* then the other rejected it; no row was ever removed.
C10_Witness ==
    /\ last.op = "reject"
    /\ last.result = "ok"
    /\ last.note = "approved"
    /\ clock = 1
    /\ Count(db) = 1
    /\ db[1].status = "rejected"

====
